---- MODULE Spec2Model ----
(***************************************************************************)
(* The Ship REST client: class Api (api.py) and its older variant, class   *)
(* api (shipapi.py).  A client is a record of its fields; every public     *)
(* method is an operator that computes, from the client, the arguments and *)
(* the server's answers, the requests it sends and how it ends (returns a  *)
(* value or raises).  The state keeps the client and the trace of the most *)
(* recent invocation: sent lists the requests it put on the wire, each     *)
(* with the response the server gave.  A second specification, ConcSpec,   *)
(* lets several callers share one client and interleaves the steps of      *)
(* their calls; threads holds each caller's position.                      *)
(*                                                                         *)
(* Python values are tagged records: None, str, int, dict, list, the       *)
(* requests Response and the _DryRunRequest stand-in.  A str is a sequence *)
(* of tokens.  Keywords and user names are sequences of single characters; *)
(* in an endpoint every "/" is a token of its own and no other token holds *)
(* a "/"; the literal text of a format string is kept in chunks.           *)
(***************************************************************************)
EXTENDS Integers, Sequences, FiniteSets, TLC

VARIABLES env, client, last, sent, printed, mutated, threads

vars == <<env, client, last, sent, printed, mutated, threads>>

(* ------------------------------ bounds -------------------------------- *)

MaxProblemId == 2
MaxKeywordLen == 2

(* --------------------------- Python values ---------------------------- *)

None == [t |-> "None"]
Str(s) == [t |-> "str", s |-> s]
PyInt(i) == [t |-> "int", i |-> i]
Dict(d) == [t |-> "dict", d |-> d]
List(l) == [t |-> "list", l |-> l]
EmptyDict == Dict([k \in {} |-> None])
EmptyList == List(<< >>)

Ret(v, s, p) == [outcome |-> "return", value |-> v, error |-> "", sent |-> s, printed |-> p]
Raise(e, s, p) == [outcome |-> "raise", value |-> None, error |-> e, sent |-> s, printed |-> p]

(* isinstance(obj, str) *)
IsStr(obj) == obj.t = "str"

(* str(a), as the %s conversion renders it *)
PyStr(a) ==
  CASE a.t = "str" -> a.s
    [] a.t = "int" -> <<ToString(a.i)>>
    [] a.t = "None" -> <<"None">>
    [] OTHER -> <<"<repr>">>

IsPlaceholder(tok) == tok \in {"%s", "%d"}

(* The % operator: tpl % args, args a tuple.  Every placeholder consumes   *)
(* one argument; too few or too many arguments raise TypeError, and so     *)
(* does %d given anything but a number.                                    *)
RECURSIVE Format(_, _)
Format(tpl, args) ==
  IF tpl = << >>
    THEN IF args = << >>
           THEN [ok |-> TRUE, s |-> << >>, error |-> ""]
           ELSE [ok |-> FALSE, s |-> << >>, error |-> "TypeError"]
    ELSE IF IsPlaceholder(Head(tpl))
      THEN IF args = << >> \/ (Head(tpl) = "%d" /\ Head(args).t # "int")
             THEN [ok |-> FALSE, s |-> << >>, error |-> "TypeError"]
             ELSE LET rest == Format(Tail(tpl), Tail(args))
                  IN  IF rest.ok
                        THEN [rest EXCEPT !.s = PyStr(Head(args)) \o @]
                        ELSE rest
      ELSE LET rest == Format(Tail(tpl), args)
           IN  IF rest.ok THEN [rest EXCEPT !.s = <<Head(tpl)>> \o @] ELSE rest

(* obj[0] *)
GetItem0(obj) ==
  CASE obj.t = "list" /\ obj.l # << >> -> [ok |-> TRUE, v |-> obj.l[1], error |-> ""]
    [] obj.t = "list" /\ obj.l = << >> -> [ok |-> FALSE, v |-> None, error |-> "IndexError"]
    [] obj.t = "dict" -> [ok |-> FALSE, v |-> None, error |-> "KeyError"]
    [] OTHER -> [ok |-> FALSE, v |-> None, error |-> "TypeError"]

(* obj[key], key a str *)
GetItem(obj, key) ==
  CASE obj.t = "dict" /\ key \in DOMAIN obj.d -> [ok |-> TRUE, v |-> obj.d[key], error |-> ""]
    [] obj.t = "dict" /\ key \notin DOMAIN obj.d -> [ok |-> FALSE, v |-> None, error |-> "KeyError"]
    [] OTHER -> [ok |-> FALSE, v |-> None, error |-> "TypeError"]

(* len(obj) of a decoded JSON document *)
PyLen(obj) ==
  CASE obj.t = "list" -> Len(obj.l)
    [] obj.t = "dict" -> Cardinality(DOMAIN obj.d)
    [] OTHER -> 0

(* ------------------------- the HTTP transport ------------------------- *)

Request(verb, url, headers, params, json) ==
  [verb |-> verb, url |-> url, headers |-> headers, params |-> params, json |-> json]

(* a request the transport sent, with the server's answer to it *)
Exchange(req, resp) == [request |-> req, response |-> resp]

Component1 == Dict([identifier |-> Str(<<"c1">>), fullName |-> Str(<<"App">>)])

Statuses == {200, 304, 404, 500}
NoJson == [t |-> "nojson"]
Bodies == {NoJson, EmptyDict, EmptyList, List(<<Component1>>)}
Responses == {[t |-> "Response", status_code |-> st, body |-> b] : st \in Statuses, b \in Bodies}

(* Response.raise_for_status(): TRUE when it raises HTTPError, which it    *)
(* does for the client and server error codes only.                        *)
raise_for_status(r) == 400 <= r.status_code /\ r.status_code < 600

(* Response.json(): the decoded body, or ValueError when there is none *)
Response_json(r) ==
  IF r.body = NoJson
    THEN [ok |-> FALSE, v |-> None, error |-> "ValueError"]
    ELSE [ok |-> TRUE, v |-> r.body, error |-> ""]

_DryRunRequest == [t |-> "_DryRunRequest"]

DryRunRequest_json(r) == [ok |-> TRUE, v |-> EmptyDict, error |-> ""]

(* r.json() on whatever a request helper returned *)
json(r) ==
  CASE r.t = "_DryRunRequest" -> DryRunRequest_json(r)
    [] r.t = "Response" -> Response_json(r)
    [] OTHER -> [ok |-> FALSE, v |-> None, error |-> "AttributeError"]

(* ------------------------------ Api (api.py) -------------------------- *)

API_VERSION == <<"20151105">>
DefaultServer == <<"https://api.realartists.com">>

NoClient == [cls |-> "none"]

(* os.getenv("SHIP_API_TOKEN") *)
getenv(e) == e

Api_init(e, token, dry_run, server) ==
  LET tok == IF token # None THEN token ELSE getenv(e)
  IN  IF tok = None
        THEN [ok |-> FALSE, self |-> NoClient, error |-> "Exception"]
        ELSE [ok |-> TRUE, error |-> "",
              self |-> [cls |-> "Api", API_VERSION |-> API_VERSION, server |-> server,
                        dry_run |-> dry_run, token |-> tok]]

_url(self, endpoint) ==
  Format(<<"%s", "/", "api", "/", "%s", "/", "%s">>,
         <<Str(self.server), Str(self.API_VERSION), Str(endpoint)>>).s

_headers(self) == [Authorization |-> self.token]

JsonContentType == <<"application/json">>

_post_headers(self) == [Authorization |-> self.token, ContentType |-> JsonContentType]

DryRunLine(verb, endpoint) == <<"DRY RUN: ", verb, " ">> \o endpoint

_post(self, endpoint, js, resp) ==
  IF self.dry_run
    THEN Ret(_DryRunRequest, << >>, <<DryRunLine("POST", endpoint)>>)
    ELSE LET req == Request("POST", _url(self, endpoint), _post_headers(self), None, js)
         IN  IF raise_for_status(resp)
               THEN Raise("HTTPError", <<Exchange(req, resp)>>, << >>)
               ELSE Ret(resp, <<Exchange(req, resp)>>, << >>)

_patch(self, endpoint, js, resp) ==
  IF self.dry_run
    THEN Ret(_DryRunRequest, << >>, <<DryRunLine("PATCH", endpoint)>>)
    ELSE LET req == Request("PATCH", _url(self, endpoint), _post_headers(self), None, js)
         IN  IF raise_for_status(resp)
               THEN Raise("HTTPError", <<Exchange(req, resp)>>, << >>)
               ELSE Ret(resp, <<Exchange(req, resp)>>, << >>)

(* _put without its dry-run branch *)
_put_always(self, endpoint, js, resp) ==
  LET req == Request("PUT", _url(self, endpoint), _post_headers(self), None, js)
  IN  IF raise_for_status(resp)
        THEN Raise("HTTPError", <<Exchange(req, resp)>>, << >>)
        ELSE Ret(resp, <<Exchange(req, resp)>>, << >>)

_put(self, endpoint, js, resp) ==
  IF self.dry_run
    THEN Ret(_DryRunRequest, << >>, <<DryRunLine("PUT", endpoint)>>)
    ELSE LET req == Request("PUT", _url(self, endpoint), _post_headers(self), None, js)
         IN  IF raise_for_status(resp)
               THEN Raise("HTTPError", <<Exchange(req, resp)>>, << >>)
               ELSE Ret(resp, <<Exchange(req, resp)>>, << >>)

(* _delete has no return statement after the request: it returns None *)
_delete(self, endpoint, js, resp) ==
  IF self.dry_run
    THEN Ret(_DryRunRequest, << >>, <<DryRunLine("DELETE", endpoint)>>)
    ELSE LET req == Request("DELETE", _url(self, endpoint), _headers(self), None, js)
         IN  IF raise_for_status(resp)
               THEN Raise("HTTPError", <<Exchange(req, resp)>>, << >>)
               ELSE Ret(None, <<Exchange(req, resp)>>, << >>)

(* _get without the call of raise_for_status *)
_get_unchecked(self, endpoint, params, resp) ==
  LET req == Request("GET", _url(self, endpoint), _headers(self), params, None)
  IN  Ret(resp, <<Exchange(req, resp)>>, << >>)

(* _get sending the request once more after an error status *)
_get_retry(self, endpoint, params, resp) ==
  LET req == Request("GET", _url(self, endpoint), _headers(self), params, None)
  IN  IF raise_for_status(resp)
        THEN Raise("HTTPError", <<Exchange(req, resp), Exchange(req, resp)>>, << >>)
        ELSE Ret(resp, <<Exchange(req, resp)>>, << >>)

_get(self, endpoint, params, resp) ==
  LET req == Request("GET", _url(self, endpoint), _headers(self), params, None)
  IN  IF raise_for_status(resp)
        THEN Raise("HTTPError", <<Exchange(req, resp)>>, << >>)
        ELSE Ret(resp, <<Exchange(req, resp)>>, << >>)

(* h.json(), h the outcome of a request helper: `return self._get(...).json()` *)
ThenJson(h) ==
  IF h.outcome = "raise"
    THEN h
    ELSE LET j == json(h.value)
         IN  IF j.ok THEN Ret(j.v, h.sent, h.printed) ELSE Raise(j.error, h.sent, h.printed)

(* a method that calls a helper and falls off its end returns None *)
ThenNone(h) == IF h.outcome = "raise" THEN h ELSE Ret(None, h.sent, h.printed)

(* _obj_id reading the wrong key of a mapping *)
_obj_id_fullName(obj) ==
  IF IsStr(obj)
    THEN [ok |-> TRUE, v |-> obj, error |-> ""]
    ELSE GetItem(obj, "fullName")

_obj_id(obj) ==
  IF IsStr(obj)
    THEN [ok |-> TRUE, v |-> obj, error |-> ""]
    ELSE GetItem(obj, "identifier")

PredicateParams(predicate) == Dict([predicate |-> predicate])

users(self, predicate, resp) ==
  IF predicate = None
    THEN ThenJson(_get(self, <<"users">>, None, resp))
    ELSE ThenJson(_get(self, <<"users", "/", "search">>, PredicateParams(predicate), resp))

me(self, resp) == users(self, Str(<<"identifier == $ApiUser">>), resp)

users_active(self, resp) == users(self, Str(<<"inactive == NO">>), resp)

components(self, predicate, resp) ==
  IF predicate = None
    THEN ThenJson(_get(self, <<"components">>, None, resp))
    ELSE ThenJson(_get(self, <<"components", "/", "search">>, PredicateParams(predicate), resp))

(* "ANY children.identifier = '%s'" % _obj_id(component) and its kin *)
IdPredicate(tpl, obj) ==
  LET id == _obj_id(obj)
  IN  IF ~id.ok
        THEN [ok |-> FALSE, s |-> << >>, error |-> id.error]
        ELSE Format(tpl, <<id.v>>)

component_parent(self, component, resp) ==
  LET p == IdPredicate(<<"ANY children.identifier = '", "%s", "'">>, component)
  IN  IF ~p.ok
        THEN Raise(p.error, << >>, << >>)
        ELSE LET list == components(self, Str(p.s), resp)
             IN  IF list.outcome = "raise"
                   THEN list
                   ELSE IF PyLen(list.value) > 0
                          THEN LET first == GetItem0(list.value)
                               IN  IF first.ok
                                     THEN Ret(first.v, list.sent, list.printed)
                                     ELSE Raise(first.error, list.sent, list.printed)
                          ELSE Ret(None, list.sent, list.printed)

component_children(self, component, resp) ==
  LET p == IdPredicate(<<"parent.identifier = '", "%s", "'">>, component)
  IN  IF ~p.ok
        THEN Raise(p.error, << >>, << >>)
        ELSE components(self, Str(p.s), resp)

classifications(self, resp) == ThenJson(_get(self, <<"classifications">>, None, resp))

milestones(self, predicate, resp) ==
  IF predicate = None
    THEN ThenJson(_get(self, <<"milestones">>, None, resp))
    ELSE ThenJson(_get(self, <<"milestones", "/", "search">>, PredicateParams(predicate), resp))

(* The two predicate literals of milestones_active, their layout reduced   *)
(* to single spaces.  The first holds ONE %s.                              *)
DateRange == "(StartDate == nil || StartDate < NOW()) AND (EndDate == nil || EndDate > NOW())"
ComponentTemplate ==
  <<DateRange, " AND (component.identifier == nil OR ", "%s", " BEGINSWITH component.fullName)">>

(* within_component = self.components("identifier = %s" % within_component)[0] *)
LookupComponent(self, within_component, resp) ==
  LET list == components(self, Str(Format(<<"identifier = ", "%s">>, <<within_component>>).s), resp)
  IN  IF list.outcome = "raise"
        THEN list
        ELSE LET first == GetItem0(list.value)
             IN  IF first.ok
                   THEN Ret(first.v, list.sent, list.printed)
                   ELSE Raise(first.error, list.sent, list.printed)

milestones_active(self, within_component, resp1, resp2) ==
  IF within_component # None
    THEN LET found == IF IsStr(within_component)
                        THEN LookupComponent(self, within_component, resp1)
                        ELSE Ret(within_component, << >>, << >>)
         IN  IF found.outcome = "raise"
               THEN found
               ELSE LET id == _obj_id(found.value)
                        fullName == GetItem(found.value, "fullName")
                    IN  IF ~id.ok
                          THEN Raise(id.error, found.sent, found.printed)
                          ELSE IF ~fullName.ok
                            THEN Raise(fullName.error, found.sent, found.printed)
                            ELSE LET p == Format(ComponentTemplate, <<id.v, fullName.v>>)
                                 IN  IF ~p.ok
                                       THEN Raise(p.error, found.sent, found.printed)
                                       ELSE LET m == milestones(self, Str(p.s), resp2)
                                            IN  [m EXCEPT !.sent = found.sent \o @,
                                                          !.printed = found.printed \o @]
    ELSE milestones(self, Str(<<DateRange>>), resp2)

priorities(self, resp) == ThenJson(_get(self, <<"priorities">>, None, resp))

(* states testing `if not predicate` in place of `if predicate is None` *)
states_truthy(self, predicate, resp) ==
  IF predicate = None \/ predicate = Str(<< >>)
    THEN ThenJson(_get(self, <<"states">>, None, resp))
    ELSE ThenJson(_get(self, <<"states", "/", "search">>, PredicateParams(predicate), resp))

states(self, predicate, resp) ==
  IF predicate = None
    THEN ThenJson(_get(self, <<"states">>, None, resp))
    ELSE ThenJson(_get(self, <<"states", "/", "search">>, PredicateParams(predicate), resp))

states_initial(self, resp) == states(self, Str(<<"Initial = YES">>), resp)

state_initial(self, resp) ==
  LET list == states_initial(self, resp)
  IN  IF list.outcome = "raise"
        THEN list
        ELSE LET first == GetItem0(list.value)
             IN  IF first.ok
                   THEN Ret(first.v, list.sent, list.printed)
                   ELSE Raise(first.error, list.sent, list.printed)

state_transitions(self, state, resp) ==
  LET p == IdPredicate(<<"ANY PreviousStates.identifier = '", "%s", "'">>, state)
  IN  IF ~p.ok
        THEN Raise(p.error, << >>, << >>)
        ELSE states(self, Str(p.s), resp)

problem(self, identifier, resp) ==
  LET ep == Format(<<"problems", "/", "%d">>, <<identifier>>)
  IN  IF ~ep.ok
        THEN Raise(ep.error, << >>, << >>)
        ELSE ThenJson(_get(self, ep.s, None, resp))

(* problem_search with `if` in place of `elif`: both parameters are sent *)
problem_search_both(self, predicate, savedQueryURL, resp) ==
  IF predicate # None /\ savedQueryURL # None
    THEN ThenJson(_get(self, <<"problems", "/", "search">>,
                       Dict([predicate |-> predicate, savedQuery |-> savedQueryURL]), resp))
    ELSE IF predicate # None
      THEN ThenJson(_get(self, <<"problems", "/", "search">>,
                         Dict([predicate |-> predicate]), resp))
      ELSE IF savedQueryURL # None
        THEN ThenJson(_get(self, <<"problems", "/", "search">>,
                           Dict([savedQuery |-> savedQueryURL]), resp))
        ELSE Raise("NameError", << >>, << >>)

(* `raise Error(...)`: no name Error is defined, so the raise statement    *)
(* itself fails with NameError.                                            *)
problem_search(self, predicate, savedQueryURL, resp) ==
  IF predicate # None
    THEN ThenJson(_get(self, <<"problems", "/", "search">>,
                       Dict([predicate |-> predicate]), resp))
    ELSE IF savedQueryURL # None
      THEN ThenJson(_get(self, <<"problems", "/", "search">>,
                         Dict([savedQuery |-> savedQueryURL]), resp))
      ELSE Raise("NameError", << >>, << >>)

problem_create(self, problem_, resp) == ThenJson(_post(self, <<"problems">>, problem_, resp))

problem_update(self, identifier, updates, resp) ==
  LET ep == Format(<<"problems", "/", "%d">>, <<identifier>>)
  IN  IF ~ep.ok
        THEN Raise(ep.error, << >>, << >>)
        ELSE ThenJson(_patch(self, ep.s, updates, resp))

(* urllib's quote over the characters of the model: the unreserved ones    *)
(* are never encoded, the others become %XX unless listed in safe.         *)
AlwaysSafe == {"F", "2", "-", ".", "_", "~"}

PercentEncoded(c) ==
  CASE c = "/" -> <<"%", "2", "F">>
    [] c = " " -> <<"%", "2", "0">>
    [] c = "?" -> <<"%", "3", "F">>
    [] c = "#" -> <<"%", "2", "3">>
    [] c = "%" -> <<"%", "2", "5">>
    [] c = "@" -> <<"%", "4", "0">>
    [] OTHER -> <<"%", "X", "X">>

RECURSIVE quote(_, _)
quote(string, safe) ==
  IF string = << >>
    THEN << >>
    ELSE (IF Head(string) \in AlwaysSafe \cup safe
            THEN <<Head(string)>>
            ELSE PercentEncoded(Head(string))) \o quote(Tail(string), safe)

(* the keyword quoted with quote's default, safe="/" *)
KeywordEndpoint_default_safe(identifier, keyword) ==
  Format(<<"problems", "/", "%d", "/", "keywords", "/", "%s">>,
         <<identifier, Str(quote(keyword.s, {"/"}))>>)

KeywordEndpoint(identifier, keyword) ==
  Format(<<"problems", "/", "%d", "/", "keywords", "/", "%s">>,
         <<identifier, Str(quote(keyword.s, {}))>>)

problem_keyword_set(self, identifier, keyword, value, resp) ==
  LET ep == KeywordEndpoint(identifier, keyword)
  IN  IF ~ep.ok
        THEN Raise(ep.error, << >>, << >>)
        ELSE ThenNone(_put(self, ep.s, value, resp))

problem_keyword_delete(self, identifier, keyword, resp) ==
  LET ep == KeywordEndpoint(identifier, keyword)
  IN  IF ~ep.ok
        THEN Raise(ep.error, << >>, << >>)
        ELSE ThenNone(_delete(self, ep.s, None, resp))

problem_relationships(self, identifier, resp) ==
  LET ep == Format(<<"problems", "/", "%d", "/", "relationships">>, <<identifier>>)
  IN  IF ~ep.ok
        THEN Raise(ep.error, << >>, << >>)
        ELSE ThenJson(_get(self, ep.s, None, resp))

(* problem_relationship_add with source and destination exchanged *)
problem_relationship_add_swapped(self, src_identifier, relation_type, dst_identifier, resp) ==
  LET ep == Format(<<"problems", "/", "%d", "/", "relationships">>, <<dst_identifier>>)
  IN  IF ~ep.ok
        THEN Raise(ep.error, << >>, << >>)
        ELSE ThenNone(_put(self, ep.s,
                           Dict([type |-> relation_type, problemIdentifier |-> src_identifier]),
                           resp))

problem_relationship_add(self, src_identifier, relation_type, dst_identifier, resp) ==
  LET ep == Format(<<"problems", "/", "%d", "/", "relationships">>, <<src_identifier>>)
  IN  IF ~ep.ok
        THEN Raise(ep.error, << >>, << >>)
        ELSE ThenNone(_put(self, ep.s,
                           Dict([type |-> relation_type, problemIdentifier |-> dst_identifier]),
                           resp))

problem_relationship_delete(self, src_identifier, relation_dict, resp) ==
  LET ep == Format(<<"problems", "/", "%d", "/", "relationships">>, <<src_identifier>>)
  IN  IF ~ep.ok
        THEN Raise(ep.error, << >>, << >>)
        ELSE ThenNone(_delete(self, ep.s, relation_dict, resp))

problem_comments(self, identifier, resp) ==
  LET ep == Format(<<"problems", "/", "%d", "/", "comments">>, <<identifier>>)
  IN  IF ~ep.ok
        THEN Raise(ep.error, << >>, << >>)
        ELSE ThenJson(_get(self, ep.s, None, resp))

problem_comments_append(self, identifier, comment, html, resp) ==
  LET ep == Format(<<"problems", "/", "%d", "/", "comments">>, <<identifier>>)
      params == IF html # None
                  THEN Dict([text |-> comment, html |-> html])
                  ELSE Dict([text |-> comment])
  IN  IF ~ep.ok
        THEN Raise(ep.error, << >>, << >>)
        ELSE ThenNone(_post(self, ep.s, params, resp))

problem_watchers(self, identifier, resp) ==
  LET ep == Format(<<"problems", "/", "%d", "/", "watchers">>, <<identifier>>)
  IN  IF ~ep.ok
        THEN Raise(ep.error, << >>, << >>)
        ELSE ThenJson(_get(self, ep.s, None, resp))

(* string.find(ch): the first index of ch, from 0, or -1 *)
find(string, ch) ==
  IF \E i \in 1..Len(string) : string[i] = ch
    THEN (CHOOSE i \in 1..Len(string) :
            string[i] = ch /\ \A j \in 1..(i - 1) : string[j] # ch) - 1
    ELSE -1

(* problem_watchers_add testing `user.find('@') > 0` *)
problem_watchers_add_positive(self, identifier, user, resp) ==
  LET ep == Format(<<"problems", "/", "%d", "/", "watchers">>, <<identifier>>)
      params == IF IsStr(user)
                  THEN IF find(user.s, "@") > 0
                         THEN Dict([email |-> user])
                         ELSE Dict([identifier |-> user])
                  ELSE user
  IN  IF ~ep.ok
        THEN Raise(ep.error, << >>, << >>)
        ELSE ThenNone(_put(self, ep.s, params, resp))

problem_watchers_add(self, identifier, user, resp) ==
  LET ep == Format(<<"problems", "/", "%d", "/", "watchers">>, <<identifier>>)
      params == IF IsStr(user)
                  THEN IF find(user.s, "@") # -1
                         THEN Dict([email |-> user])
                         ELSE Dict([identifier |-> user])
                  ELSE user
  IN  IF ~ep.ok
        THEN Raise(ep.error, << >>, << >>)
        ELSE ThenNone(_put(self, ep.s, params, resp))

(* --------------------------- api (shipapi.py) ------------------------- *)

(* `raise Error(...)`: no name Error is defined, so construction without a *)
(* token fails with NameError.                                             *)
shipapi_init(e, token, server) ==
  LET tok == IF token # None THEN token ELSE getenv(e)
  IN  IF tok = None
        THEN [ok |-> FALSE, self |-> NoClient, error |-> "NameError"]
        ELSE [ok |-> TRUE, error |-> "",
              self |-> [cls |-> "api", API_VERSION |-> API_VERSION, server |-> server,
                        token |-> tok]]

url(self, endpoint) ==
  Format(<<"%s", "/", "api", "/", "%s", "/", "%s">>,
         <<Str(self.server), Str(self.API_VERSION), Str(endpoint)>>).s

headers(self) == [Authorization |-> self.token]

post_headers(self) == [Authorization |-> self.token, ContentType |-> JsonContentType]

(* The three statements every reading method of shipapi.py repeats:        *)
(* r = requests.get(...); r.raise_for_status(); return r.json()            *)
shipapi_get(self, endpoint, params, resp) ==
  LET req == Request("GET", url(self, endpoint), headers(self), params, None)
  IN  IF raise_for_status(resp)
        THEN Raise("HTTPError", <<Exchange(req, resp)>>, << >>)
        ELSE ThenJson(Ret(resp, <<Exchange(req, resp)>>, << >>))

shipapi_users(self, predicate, resp) ==
  IF predicate = None
    THEN shipapi_get(self, <<"users">>, None, resp)
    ELSE shipapi_get(self, <<"users", "/", "search">>, PredicateParams(predicate), resp)

shipapi_me(self, resp) == shipapi_users(self, Str(<<"identifier == $ApiUser">>), resp)

active_users(self, resp) == shipapi_users(self, Str(<<"inactive == NO">>), resp)

shipapi_components(self, predicate, resp) ==
  IF predicate = None
    THEN shipapi_get(self, <<"components">>, None, resp)
    ELSE shipapi_get(self, <<"components", "/", "search">>, PredicateParams(predicate), resp)

shipapi_component_parent(self, component, resp) ==
  LET p == IdPredicate(<<"ANY children.identifier = '", "%s", "'">>, component)
  IN  IF ~p.ok
        THEN Raise(p.error, << >>, << >>)
        ELSE LET list == shipapi_components(self, Str(p.s), resp)
             IN  IF list.outcome = "raise"
                   THEN list
                   ELSE IF PyLen(list.value) > 0
                          THEN LET first == GetItem0(list.value)
                               IN  IF first.ok
                                     THEN Ret(first.v, list.sent, list.printed)
                                     ELSE Raise(first.error, list.sent, list.printed)
                          ELSE Ret(None, list.sent, list.printed)

shipapi_component_children(self, component, resp) ==
  LET p == IdPredicate(<<"parent.identifier = '", "%s", "'">>, component)
  IN  IF ~p.ok
        THEN Raise(p.error, << >>, << >>)
        ELSE shipapi_components(self, Str(p.s), resp)

shipapi_classifications(self, resp) == shipapi_get(self, <<"classifications">>, None, resp)

shipapi_milestones(self, predicate, resp) ==
  IF predicate = None
    THEN shipapi_get(self, <<"milestones">>, None, resp)
    ELSE shipapi_get(self, <<"milestones", "/", "search">>, PredicateParams(predicate), resp)

shipapi_LookupComponent(self, within_component, resp) ==
  LET list == shipapi_components(self,
                Str(Format(<<"identifier = ", "%s">>, <<within_component>>).s), resp)
  IN  IF list.outcome = "raise"
        THEN list
        ELSE LET first == GetItem0(list.value)
             IN  IF first.ok
                   THEN Ret(first.v, list.sent, list.printed)
                   ELSE Raise(first.error, list.sent, list.printed)

active_milestones(self, within_component, resp1, resp2) ==
  IF within_component # None
    THEN LET found == IF IsStr(within_component)
                        THEN shipapi_LookupComponent(self, within_component, resp1)
                        ELSE Ret(within_component, << >>, << >>)
         IN  IF found.outcome = "raise"
               THEN found
               ELSE LET id == _obj_id(found.value)
                        fullName == GetItem(found.value, "fullName")
                    IN  IF ~id.ok
                          THEN Raise(id.error, found.sent, found.printed)
                          ELSE IF ~fullName.ok
                            THEN Raise(fullName.error, found.sent, found.printed)
                            ELSE LET p == Format(ComponentTemplate, <<id.v, fullName.v>>)
                                 IN  IF ~p.ok
                                       THEN Raise(p.error, found.sent, found.printed)
                                       ELSE LET m == shipapi_milestones(self, Str(p.s), resp2)
                                            IN  [m EXCEPT !.sent = found.sent \o @,
                                                          !.printed = found.printed \o @]
    ELSE shipapi_milestones(self, Str(<<DateRange>>), resp2)

shipapi_priorities(self, resp) == shipapi_get(self, <<"priorities">>, None, resp)

shipapi_states(self, predicate, resp) ==
  IF predicate = None
    THEN shipapi_get(self, <<"states">>, None, resp)
    ELSE shipapi_get(self, <<"states", "/", "search">>, PredicateParams(predicate), resp)

initial_states(self, resp) == shipapi_states(self, Str(<<"Initial = YES">>), resp)

initial_state(self, resp) ==
  LET list == initial_states(self, resp)
  IN  IF list.outcome = "raise"
        THEN list
        ELSE LET first == GetItem0(list.value)
             IN  IF first.ok
                   THEN Ret(first.v, list.sent, list.printed)
                   ELSE Raise(first.error, list.sent, list.printed)

shipapi_state_transitions(self, state, resp) ==
  LET p == IdPredicate(<<"ANY PreviousStates.identifier = '", "%s", "'">>, state)
  IN  IF ~p.ok
        THEN Raise(p.error, << >>, << >>)
        ELSE shipapi_states(self, Str(p.s), resp)

shipapi_problem(self, identifier, resp) ==
  LET ep == Format(<<"problems", "/", "%d">>, <<identifier>>)
  IN  IF ~ep.ok
        THEN Raise(ep.error, << >>, << >>)
        ELSE shipapi_get(self, ep.s, None, resp)

search(self, predicate, savedQueryURL, resp) ==
  IF predicate # None
    THEN shipapi_get(self, <<"problems", "/", "search">>, Dict([predicate |-> predicate]), resp)
    ELSE IF savedQueryURL # None
      THEN shipapi_get(self, <<"problems", "/", "search">>,
                       Dict([savedQuery |-> savedQueryURL]), resp)
      ELSE Raise("NameError", << >>, << >>)

create_problem(self, problem_, resp) ==
  LET req == Request("POST", url(self, <<"problems">>), post_headers(self), None, problem_)
  IN  IF raise_for_status(resp)
        THEN Raise("HTTPError", <<Exchange(req, resp)>>, << >>)
        ELSE ThenJson(Ret(resp, <<Exchange(req, resp)>>, << >>))

(* ------------------------------ the system ---------------------------- *)

Tokens == {None, Str(<<"tok">>)}
EnvValues == {None, Str(<<"envtok">>)}
Servers == {DefaultServer}
Predicates == {None, Str(<< >>), Str(<<"name = 'x'">>)}
SavedQueries == {None, Str(<<"ship://Query/2Kk8ww70TvWEyVO3bzYpkQ">>)}
ProblemIds == {PyInt(i) : i \in 1..MaxProblemId}

(* a state or component: its identifier, or the mapping the server gave *)
Objects == {Str(<<"s1">>), Str(<<"it's">>),
            Dict([identifier |-> Str(<<"s2">>), fullName |-> Str(<<"App">>)])}
WithinComponents == {None, Str(<<"c1">>), Component1}

KeywordChars == {"F", "2", "/", " ", "?", "#", "%"}
RECURSIVE StringsUpTo(_, _)
StringsUpTo(chars, n) ==
  IF n = 0
    THEN {<< >>}
    ELSE LET shorter == StringsUpTo(chars, n - 1)
         IN  shorter \cup {<<c>> \o w : c \in chars, w \in {x \in shorter : Len(x) = n - 1}}
Keywords == {Str(w) : w \in StringsUpTo(KeywordChars, MaxKeywordLen)}
KeywordValues == {None, Str(<<"v">>)}

RelationTypes == {Str(<<"BlockedBy">>), Str(<<"RelatedTo">>)}
Relations == {Dict([type |-> t, problemIdentifier |-> d]) : t \in RelationTypes, d \in ProblemIds}
Problems == {Dict([title |-> Str(<<"Crash">>)])}
Comments == {Str(<<"text">>)}
Htmls == {None, Str(<<"<p>text</p>">>)}
Users == {Str(<<"u", "1">>), Str(<<"a", "@", "b">>), Str(<<"@">>),
          Dict([identifier |-> Str(<<"u", "1">>), email |-> Str(<<"a", "@", "b">>)])}

NoCall == [op |-> "none", args |-> << >>, outcome |-> "none", value |-> None, error |-> ""]

Init ==
  /\ env \in EnvValues
  /\ client = NoClient
  /\ last = NoCall
  /\ sent = << >>
  /\ printed = << >>
  /\ mutated = FALSE
  /\ threads = << >>

(* The caller invokes method op with args on the client, and the call     *)
(* ends as res.                                                            *)
Invoke(op, args, res, mutating) ==
  /\ last' = [op |-> op, args |-> args, outcome |-> res.outcome,
              value |-> res.value, error |-> res.error]
  /\ sent' = res.sent
  /\ printed' = res.printed
  /\ mutated' = (mutated \/ mutating)
  /\ UNCHANGED <<env, client, threads>>

Construct(op, args, c) ==
  /\ client = NoClient
  /\ last = NoCall
  /\ client' = c.self
  /\ last' = [op |-> op, args |-> args, outcome |-> IF c.ok THEN "return" ELSE "raise",
              value |-> None, error |-> c.error]
  /\ sent' = << >>
  /\ printed' = << >>
  /\ UNCHANGED <<env, mutated, threads>>

(* The caller takes the outcome of the call and goes on. *)
Return ==
  /\ last # NoCall
  /\ last' = NoCall
  /\ sent' = << >>
  /\ printed' = << >>
  /\ UNCHANGED <<env, client, mutated, threads>>

(* the caller holds a client of the class and no pending outcome *)
IsApi == client.cls = "Api" /\ last = NoCall
Isapi == client.cls = "api" /\ last = NoCall

New_Api ==
  \E token \in Tokens, dry_run \in BOOLEAN, server \in Servers :
    Construct("Api", <<token, dry_run, Str(server)>>, Api_init(env, token, dry_run, server))

New_api ==
  \E token \in Tokens, server \in Servers :
    Construct("api", <<token, Str(server)>>, shipapi_init(env, token, server))

Call_me == IsApi /\ \E r \in Responses : Invoke("me", << >>, me(client, r), FALSE)

Call_users_active ==
  IsApi /\ \E r \in Responses : Invoke("users_active", << >>, users_active(client, r), FALSE)

Call_users ==
  IsApi /\ \E p \in Predicates, r \in Responses :
    Invoke("users", <<p>>, users(client, p, r), FALSE)

Call_components ==
  IsApi /\ \E p \in Predicates, r \in Responses :
    Invoke("components", <<p>>, components(client, p, r), FALSE)

Call_component_parent ==
  IsApi /\ \E c \in Objects, r \in Responses :
    Invoke("component_parent", <<c>>, component_parent(client, c, r), FALSE)

Call_component_children ==
  IsApi /\ \E c \in Objects, r \in Responses :
    Invoke("component_children", <<c>>, component_children(client, c, r), FALSE)

Call_classifications ==
  IsApi /\ \E r \in Responses :
    Invoke("classifications", << >>, classifications(client, r), FALSE)

Call_milestones ==
  IsApi /\ \E p \in Predicates, r \in Responses :
    Invoke("milestones", <<p>>, milestones(client, p, r), FALSE)

Call_milestones_active ==
  IsApi /\ \E c \in WithinComponents, r1 \in Responses, r2 \in Responses :
    Invoke("milestones_active", <<c>>, milestones_active(client, c, r1, r2), FALSE)

Call_priorities ==
  IsApi /\ \E r \in Responses : Invoke("priorities", << >>, priorities(client, r), FALSE)

Call_states ==
  IsApi /\ \E p \in Predicates, r \in Responses :
    Invoke("states", <<p>>, states(client, p, r), FALSE)

Call_state_initial ==
  IsApi /\ \E r \in Responses : Invoke("state_initial", << >>, state_initial(client, r), FALSE)

Call_states_initial ==
  IsApi /\ \E r \in Responses : Invoke("states_initial", << >>, states_initial(client, r), FALSE)

Call_state_transitions ==
  IsApi /\ \E s \in Objects, r \in Responses :
    Invoke("state_transitions", <<s>>, state_transitions(client, s, r), FALSE)

Call_problem ==
  IsApi /\ \E n \in ProblemIds, r \in Responses :
    Invoke("problem", <<n>>, problem(client, n, r), FALSE)

Call_problem_search ==
  IsApi /\ \E p \in Predicates, q \in SavedQueries, r \in Responses :
    Invoke("problem_search", <<p, q>>, problem_search(client, p, q, r), FALSE)

Call_problem_create ==
  IsApi /\ \E pr \in Problems, r \in Responses :
    Invoke("problem_create", <<pr>>, problem_create(client, pr, r), TRUE)

Call_problem_update ==
  IsApi /\ \E n \in ProblemIds, u \in Problems, r \in Responses :
    Invoke("problem_update", <<n, u>>, problem_update(client, n, u, r), TRUE)

Call_problem_keyword_set ==
  IsApi /\ \E n \in ProblemIds, k \in Keywords, v \in KeywordValues, r \in Responses :
    Invoke("problem_keyword_set", <<n, k, v>>,
                    problem_keyword_set(client, n, k, v, r), TRUE)

Call_problem_keyword_delete ==
  IsApi /\ \E n \in ProblemIds, k \in Keywords, r \in Responses :
    Invoke("problem_keyword_delete", <<n, k>>,
                    problem_keyword_delete(client, n, k, r), TRUE)

Call_problem_relationships ==
  IsApi /\ \E n \in ProblemIds, r \in Responses :
    Invoke("problem_relationships", <<n>>, problem_relationships(client, n, r), FALSE)

Call_problem_relationship_add ==
  IsApi /\ \E s \in ProblemIds, t \in RelationTypes, d \in ProblemIds, r \in Responses :
    Invoke("problem_relationship_add", <<s, t, d>>,
                    problem_relationship_add(client, s, t, d, r), TRUE)

Call_problem_relationship_delete ==
  IsApi /\ \E s \in ProblemIds, rel \in Relations, r \in Responses :
    Invoke("problem_relationship_delete", <<s, rel>>,
                    problem_relationship_delete(client, s, rel, r), TRUE)

Call_problem_comments ==
  IsApi /\ \E n \in ProblemIds, r \in Responses :
    Invoke("problem_comments", <<n>>, problem_comments(client, n, r), FALSE)

Call_problem_comments_append ==
  IsApi /\ \E n \in ProblemIds, c \in Comments, h \in Htmls, r \in Responses :
    Invoke("problem_comments_append", <<n, c, h>>,
                    problem_comments_append(client, n, c, h, r), TRUE)

Call_problem_watchers ==
  IsApi /\ \E n \in ProblemIds, r \in Responses :
    Invoke("problem_watchers", <<n>>, problem_watchers(client, n, r), FALSE)

Call_problem_watchers_add ==
  IsApi /\ \E n \in ProblemIds, u \in Users, r \in Responses :
    Invoke("problem_watchers_add", <<n, u>>,
                    problem_watchers_add(client, n, u, r), TRUE)

Call_shipapi_me ==
  Isapi /\ \E r \in Responses : Invoke("me", << >>, shipapi_me(client, r), FALSE)

Call_active_users ==
  Isapi /\ \E r \in Responses : Invoke("active_users", << >>, active_users(client, r), FALSE)

Call_shipapi_users ==
  Isapi /\ \E p \in Predicates, r \in Responses :
    Invoke("users", <<p>>, shipapi_users(client, p, r), FALSE)

Call_shipapi_components ==
  Isapi /\ \E p \in Predicates, r \in Responses :
    Invoke("components", <<p>>, shipapi_components(client, p, r), FALSE)

Call_shipapi_component_parent ==
  Isapi /\ \E c \in Objects, r \in Responses :
    Invoke("component_parent", <<c>>, shipapi_component_parent(client, c, r), FALSE)

Call_shipapi_component_children ==
  Isapi /\ \E c \in Objects, r \in Responses :
    Invoke("component_children", <<c>>,
                    shipapi_component_children(client, c, r), FALSE)

Call_shipapi_classifications ==
  Isapi /\ \E r \in Responses :
    Invoke("classifications", << >>, shipapi_classifications(client, r), FALSE)

Call_shipapi_milestones ==
  Isapi /\ \E p \in Predicates, r \in Responses :
    Invoke("milestones", <<p>>, shipapi_milestones(client, p, r), FALSE)

Call_active_milestones ==
  Isapi /\ \E c \in WithinComponents, r1 \in Responses, r2 \in Responses :
    Invoke("active_milestones", <<c>>, active_milestones(client, c, r1, r2), FALSE)

Call_shipapi_priorities ==
  Isapi /\ \E r \in Responses :
    Invoke("priorities", << >>, shipapi_priorities(client, r), FALSE)

Call_shipapi_states ==
  Isapi /\ \E p \in Predicates, r \in Responses :
    Invoke("states", <<p>>, shipapi_states(client, p, r), FALSE)

Call_initial_state ==
  Isapi /\ \E r \in Responses : Invoke("initial_state", << >>, initial_state(client, r), FALSE)

Call_initial_states ==
  Isapi /\ \E r \in Responses : Invoke("initial_states", << >>, initial_states(client, r), FALSE)

Call_shipapi_state_transitions ==
  Isapi /\ \E s \in Objects, r \in Responses :
    Invoke("state_transitions", <<s>>, shipapi_state_transitions(client, s, r), FALSE)

Call_shipapi_problem ==
  Isapi /\ \E n \in ProblemIds, r \in Responses :
    Invoke("problem", <<n>>, shipapi_problem(client, n, r), FALSE)

Call_search ==
  Isapi /\ \E p \in Predicates, q \in SavedQueries, r \in Responses :
    Invoke("search", <<p, q>>, search(client, p, q, r), FALSE)

Call_create_problem ==
  Isapi /\ \E pr \in Problems, r \in Responses :
    Invoke("create_problem", <<pr>>, create_problem(client, pr, r), TRUE)

Next ==
  \/ Return
  \/ New_Api
  \/ New_api
  \/ Call_me
  \/ Call_users_active
  \/ Call_users
  \/ Call_components
  \/ Call_component_parent
  \/ Call_component_children
  \/ Call_classifications
  \/ Call_milestones
  \/ Call_milestones_active
  \/ Call_priorities
  \/ Call_states
  \/ Call_state_initial
  \/ Call_states_initial
  \/ Call_state_transitions
  \/ Call_problem
  \/ Call_problem_search
  \/ Call_problem_create
  \/ Call_problem_update
  \/ Call_problem_keyword_set
  \/ Call_problem_keyword_delete
  \/ Call_problem_relationships
  \/ Call_problem_relationship_add
  \/ Call_problem_relationship_delete
  \/ Call_problem_comments
  \/ Call_problem_comments_append
  \/ Call_problem_watchers
  \/ Call_problem_watchers_add
  \/ Call_shipapi_me
  \/ Call_active_users
  \/ Call_shipapi_users
  \/ Call_shipapi_components
  \/ Call_shipapi_component_parent
  \/ Call_shipapi_component_children
  \/ Call_shipapi_classifications
  \/ Call_shipapi_milestones
  \/ Call_active_milestones
  \/ Call_shipapi_priorities
  \/ Call_shipapi_states
  \/ Call_initial_state
  \/ Call_initial_states
  \/ Call_shipapi_state_transitions
  \/ Call_shipapi_problem
  \/ Call_search
  \/ Call_create_problem

Spec == Init /\ [][Next]_vars

(* ------------------- concurrent callers, one client ------------------- *)

Callers == {"c1", "c2"}

(* the server's answers: 200 with a list of one component, or 404 *)
ConcResponses ==
  {[t |-> "Response", status_code |-> 200, body |-> List(<<Component1>>)],
   [t |-> "Response", status_code |-> 404, body |-> NoJson]}

Call(op, args) == [op |-> op, args |-> args]

(* the calls the callers make: every public method of Api *)
ConcCalls ==
  {Call("me", << >>), Call("users_active", << >>), Call("users", <<None>>),
   Call("users", <<Str(<<"name = 'x'">>)>>), Call("components", <<None>>),
   Call("component_parent", <<Str(<<"s1">>)>>),
   Call("component_children", <<Component1>>), Call("classifications", << >>),
   Call("milestones", <<Str(<<"name = 'x'">>)>>), Call("milestones_active", <<None>>),
   Call("milestones_active", <<Str(<<"c1">>)>>), Call("milestones_active", <<Component1>>),
   Call("priorities", << >>), Call("states", <<None>>), Call("state_initial", << >>),
   Call("states_initial", << >>), Call("state_transitions", <<Str(<<"s1">>)>>),
   Call("problem", <<PyInt(1)>>), Call("problem_search", <<None, None>>),
   Call("problem_search", <<Str(<<"name = 'x'">>), None>>),
   Call("problem_create", <<Dict([title |-> Str(<<"Crash">>)])>>),
   Call("problem_update", <<PyInt(1), Dict([title |-> Str(<<"Crash">>)])>>),
   Call("problem_keyword_set", <<PyInt(1), Str(<<"/">>), None>>),
   Call("problem_keyword_delete", <<PyInt(1), Str(<<"/">>)>>),
   Call("problem_relationships", <<PyInt(1)>>),
   Call("problem_relationship_add", <<PyInt(1), Str(<<"BlockedBy">>), PyInt(2)>>),
   Call("problem_relationship_delete",
        <<PyInt(1), Dict([type |-> Str(<<"BlockedBy">>), problemIdentifier |-> PyInt(2)])>>),
   Call("problem_comments", <<PyInt(1)>>),
   Call("problem_comments_append", <<PyInt(1), Str(<<"text">>), None>>),
   Call("problem_watchers", <<PyInt(1)>>),
   Call("problem_watchers_add", <<PyInt(1), Str(<<"@">>)>>)}

(* method op of Api called with args on client self by a caller on its     *)
(* own, the server answering r                                             *)
RunAlone(self, op, args, r) ==
  CASE op = "me" -> me(self, r)
    [] op = "users_active" -> users_active(self, r)
    [] op = "users" -> users(self, args[1], r)
    [] op = "components" -> components(self, args[1], r)
    [] op = "component_parent" -> component_parent(self, args[1], r)
    [] op = "component_children" -> component_children(self, args[1], r)
    [] op = "classifications" -> classifications(self, r)
    [] op = "milestones" -> milestones(self, args[1], r)
    [] op = "milestones_active" -> milestones_active(self, args[1], r, r)
    [] op = "priorities" -> priorities(self, r)
    [] op = "states" -> states(self, args[1], r)
    [] op = "state_initial" -> state_initial(self, r)
    [] op = "states_initial" -> states_initial(self, r)
    [] op = "state_transitions" -> state_transitions(self, args[1], r)
    [] op = "problem" -> problem(self, args[1], r)
    [] op = "problem_search" -> problem_search(self, args[1], args[2], r)
    [] op = "problem_create" -> problem_create(self, args[1], r)
    [] op = "problem_update" -> problem_update(self, args[1], args[2], r)
    [] op = "problem_keyword_set" -> problem_keyword_set(self, args[1], args[2], args[3], r)
    [] op = "problem_keyword_delete" -> problem_keyword_delete(self, args[1], args[2], r)
    [] op = "problem_relationships" -> problem_relationships(self, args[1], r)
    [] op = "problem_relationship_add" ->
         problem_relationship_add(self, args[1], args[2], args[3], r)
    [] op = "problem_relationship_delete" ->
         problem_relationship_delete(self, args[1], args[2], r)
    [] op = "problem_comments" -> problem_comments(self, args[1], r)
    [] op = "problem_comments_append" ->
         problem_comments_append(self, args[1], args[2], args[3], r)
    [] op = "problem_watchers" -> problem_watchers(self, args[1], r)
    [] op = "problem_watchers_add" -> problem_watchers_add(self, args[1], args[2], r)

(* the requests of a sequence of exchanges *)
Wire(exchanges) == [i \in 1..Len(exchanges) |-> exchanges[i].request]

(* What the body of the method hands to the request helpers, in order: the *)
(* verb, the endpoint, the query parameters and the JSON body of each      *)
(* helper call.  They are computed from the arguments alone.               *)
HelperCall(self, request) ==
  [verb |-> request.verb,
   endpoint |-> SubSeq(request.url, Len(self.server) + Len(self.API_VERSION) + 5,
                       Len(request.url)),
   params |-> request.params,
   json |-> request.json]

HelperCallsOf(self, requests) ==
  [i \in 1..Len(requests) |-> HelperCall(self, requests[i])]

HelperCalls(self, op, args, r) ==
  HelperCallsOf(self, Wire(RunAlone([self EXCEPT !.dry_run = FALSE], op, args, r).sent))

Idle == [pc |-> "idle"]

ConcInit ==
  /\ env = None
  /\ client \in {Api_init(env, Str(<<"tok">>), d, DefaultServer).self : d \in BOOLEAN}
  /\ last = NoCall
  /\ sent = << >>
  /\ printed = << >>
  /\ mutated = FALSE
  /\ threads = [t \in Callers |-> Idle]

(* caller t enters a method; alone is what the call sends on the client as *)
(* it is now, were no other caller around                                  *)
Enter(op, args, r, todo, alone) ==
  [pc |-> IF todo = << >> THEN "done" ELSE "helper",
   op |-> op, args |-> args, resp |-> r, todo |-> todo, alone |-> alone,
   url |-> << >>, headers |-> _headers(client), wire |-> << >>]

T_Call(t) ==
  /\ threads[t].pc = "idle"
  /\ \E c \in ConcCalls, r \in ConcResponses :
       threads' = [threads EXCEPT ![t] =
         Enter(c.op, c.args, r, HelperCalls(client, c.op, c.args, r),
               Wire(RunAlone(client, c.op, c.args, r).sent))]
  /\ UNCHANGED client
  /\ UNCHANGED <<env, last, sent, printed, mutated>>

(* _post, _patch, _put, _delete: `if self.dry_run` reads the flag and ends *)
(* the call without a request; _get does not look at it                    *)
T_Helper(t) ==
  /\ threads[t].pc = "helper"
  /\ threads' = [threads EXCEPT ![t].pc =
       IF Head(threads[t].todo).verb # "GET" /\ client.dry_run THEN "done" ELSE "url"]
  /\ UNCHANGED client
  /\ UNCHANGED <<env, last, sent, printed, mutated>>

(* self._url(endpoint) reads self.server and self.API_VERSION *)
T_Url(t) ==
  /\ threads[t].pc = "url"
  /\ threads' = [threads EXCEPT ![t].pc = "headers",
                                ![t].url = _url(client, Head(threads[t].todo).endpoint)]
  /\ UNCHANGED client
  /\ UNCHANGED <<env, last, sent, printed, mutated>>

(* a variant of the step below that keeps the header value in the client *)
T_Headers_storing(t) ==
  /\ threads[t].pc = "headers"
  /\ threads' = [threads EXCEPT ![t].pc = "send", ![t].headers = _headers(client)]
  /\ client' = [client EXCEPT !.token = Str(<<"Bearer ">> \o client.token.s)]
  /\ UNCHANGED <<env, last, sent, printed, mutated>>

(* self._headers() / self._post_headers() read self.token *)
T_Headers(t) ==
  /\ threads[t].pc = "headers"
  /\ threads' = [threads EXCEPT ![t].pc = "send",
       ![t].headers = IF Head(threads[t].todo).verb \in {"GET", "DELETE"}
                        THEN _headers(client)
                        ELSE _post_headers(client)]
  /\ UNCHANGED client
  /\ UNCHANGED <<env, last, sent, printed, mutated>>

(* requests.get / post / patch / put / delete puts the request on the wire; *)
(* an error status ends the call, as does the last helper call             *)
T_Send(t) ==
  /\ threads[t].pc = "send"
  /\ LET h == Head(threads[t].todo)
         req == Request(h.verb, threads[t].url, threads[t].headers, h.params, h.json)
         more == Tail(threads[t].todo) # << >> /\ ~raise_for_status(threads[t].resp)
     IN  threads' = [threads EXCEPT ![t].wire = Append(@, req),
                                    ![t].todo = Tail(@),
                                    ![t].pc = IF more THEN "helper" ELSE "done"]
  /\ UNCHANGED client
  /\ UNCHANGED <<env, last, sent, printed, mutated>>

(* the call ends and the caller goes on *)
T_Return(t) ==
  /\ threads[t].pc = "done"
  /\ threads' = [threads EXCEPT ![t] = Idle]
  /\ UNCHANGED client
  /\ UNCHANGED <<env, last, sent, printed, mutated>>

ConcNext ==
  \E t \in Callers :
    \/ T_Call(t)
    \/ T_Helper(t)
    \/ T_Url(t)
    \/ T_Headers(t)
    \/ T_Send(t)
    \/ T_Return(t)

ConcSpec == ConcInit /\ [][ConcNext]_vars

(* ------------------------------- claims ------------------------------- *)

MutatingOps ==
  {"problem_create", "problem_update", "problem_keyword_set", "problem_keyword_delete",
   "problem_relationship_add", "problem_relationship_delete", "problem_comments_append",
   "problem_watchers_add"}

ReadOps ==
  {"me", "users_active", "users", "components", "component_parent", "component_children",
   "classifications", "milestones", "milestones_active", "priorities", "states",
   "state_initial", "states_initial", "state_transitions", "problem", "problem_search",
   "problem_relationships", "problem_comments", "problem_watchers"}

OnApi == client.cls = "Api"

Requests(exchanges) == [i \in 1..Len(exchanges) |-> exchanges[i].request]

(* {server}/api/{version}/ followed by the endpoint *)
UrlOf(endpoint) == client.server \o <<"/", "api", "/">> \o client.API_VERSION \o <<"/">> \o endpoint

EndpointOf(request) ==
  SubSeq(request.url, Len(client.server) + Len(client.API_VERSION) + 5, Len(request.url))

(* The read-only invocation recorded in last, run again on client self     *)
(* against the answers r1 (to its first request) and r2 (to its last).     *)
ReadAgain(self, r1, r2) ==
  CASE last.op = "me" -> me(self, r2)
    [] last.op = "users_active" -> users_active(self, r2)
    [] last.op = "users" -> users(self, last.args[1], r2)
    [] last.op = "components" -> components(self, last.args[1], r2)
    [] last.op = "component_parent" -> component_parent(self, last.args[1], r2)
    [] last.op = "component_children" -> component_children(self, last.args[1], r2)
    [] last.op = "classifications" -> classifications(self, r2)
    [] last.op = "milestones" -> milestones(self, last.args[1], r2)
    [] last.op = "milestones_active" -> milestones_active(self, last.args[1], r1, r2)
    [] last.op = "priorities" -> priorities(self, r2)
    [] last.op = "states" -> states(self, last.args[1], r2)
    [] last.op = "state_initial" -> state_initial(self, r2)
    [] last.op = "states_initial" -> states_initial(self, r2)
    [] last.op = "state_transitions" -> state_transitions(self, last.args[1], r2)
    [] last.op = "problem" -> problem(self, last.args[1], r2)
    [] last.op = "problem_search" -> problem_search(self, last.args[1], last.args[2], r2)
    [] last.op = "problem_relationships" -> problem_relationships(self, last.args[1], r2)
    [] last.op = "problem_comments" -> problem_comments(self, last.args[1], r2)
    [] last.op = "problem_watchers" -> problem_watchers(self, last.args[1], r2)

OkResponse == [t |-> "Response", status_code |-> 200, body |-> List(<<Component1>>)]

(* what the recorded read-only invocation sends on the same client with    *)
(* dry_run off, the server answering as it did (or with 200 if it was      *)
(* never asked)                                                            *)
SentWithoutDryRun ==
  LET r1 == IF sent = << >> THEN OkResponse ELSE sent[1].response
      r2 == IF sent = << >> THEN OkResponse ELSE sent[Len(sent)].response
  IN  Requests(ReadAgain([client EXCEPT !.dry_run = FALSE], r1, r2).sent)

(* C1: on a client constructed with dry_run=True, a mutating operation     *)
(* sends no request and returns an empty result ({} or None) without       *)
(* raising, also after earlier calls; a read-only operation, also one made *)
(* after mutating ones, sends GET requests only, the very requests it      *)
(* sends with dry_run off.                                                 *)
C1_DryRun ==
  (OnApi /\ client.dry_run) =>
    /\ last.op \in MutatingOps =>
         /\ sent = << >>
         /\ last.outcome = "return"
         /\ last.value \in {EmptyDict, None}
    /\ last.op \in ReadOps =>
         /\ \A i \in 1..Len(sent) : sent[i].request.verb = "GET"
         /\ Requests(sent) = SentWithoutDryRun

C1_Witness ==
  /\ OnApi /\ client.dry_run /\ mutated
  /\ last.op = "problem_watchers"
  /\ Len(sent) = 1
  /\ sent[1].request.verb = "GET"

(* C2 as stated: whenever the server answers a request of an operation     *)
(* with a status outside 200..299, the operation raises.                   *)
C2_NonSuccessRaises ==
  \A i \in 1..Len(sent) :
    sent[i].response.status_code \notin 200..299 => last.outcome = "raise"

(* C2, amended: whenever the server answers a request of an operation with *)
(* a status in 400..599, the operation raises and returns no value.        *)
C2_ErrorStatusRaises ==
  \A i \in 1..Len(sent) :
    sent[i].response.status_code \in 400..599 =>
      /\ last.outcome = "raise"
      /\ last.error = "HTTPError"
      /\ i = Len(sent)

C2_Witness ==
  /\ last.op = "problem"
  /\ Len(sent) = 1
  /\ sent[1].response.status_code = 404
  /\ sent[1].response.body = EmptyList
  /\ last.outcome = "raise"

ConstructorOps == {"Api", "api"}

(* C3: a constructor called with token=None while SHIP_API_TOKEN is unset  *)
(* fails with a configuration error and leaves no client; otherwise it     *)
(* succeeds and the client's token is the argument if given, else the      *)
(* environment's value.                                                    *)
C3_Construction ==
  last.op \in ConstructorOps =>
    IF last.args[1] = None /\ env = None
      THEN /\ last.outcome = "raise"
           /\ last.error = "Exception"
           /\ client = NoClient
      ELSE /\ last.outcome = "return"
           /\ client.cls = last.op
           /\ client.token = (IF last.args[1] # None THEN last.args[1] ELSE env)

ListOps == {"users", "components", "milestones", "states"}

(* C4: users, components, milestones and states send exactly one GET: with *)
(* predicate None to {server}/api/{version}/<collection> without query     *)
(* parameters, with a predicate p (the empty string too) to                *)
(* <collection>/search with the single parameter predicate = p.            *)
C4_ListOrSearch ==
  last.op \in ListOps =>
    /\ Len(sent) = 1
    /\ sent[1].request.verb = "GET"
    /\ IF last.args[1] = None
         THEN /\ sent[1].request.url = UrlOf(<<last.op>>)
              /\ sent[1].request.params = None
         ELSE /\ sent[1].request.url = UrlOf(<<last.op, "/", "search">>)
              /\ sent[1].request.params = Dict([predicate |-> last.args[1]])

C4_Witness ==
  /\ last.op = "states"
  /\ last.args = <<Str(<< >>)>>
  /\ Len(sent) = 1
  /\ sent[1].request.url = UrlOf(<<"states", "/", "search">>)

IdOf(obj) == IF obj.t = "str" THEN obj.s ELSE obj.d.identifier.s

(* C5: users_active / active_users request users/search with predicate     *)
(* `inactive == NO`; state_transitions(S) requests states/search with       *)
(* predicate `ANY PreviousStates.identifier = '<id>'`, <id> being S itself  *)
(* or S["identifier"], unescaped; each returns the search result as is.     *)
C5_DerivedQueries ==
  /\ last.op \in {"users_active", "active_users"} =>
       /\ Len(sent) = 1
       /\ sent[1].request.verb = "GET"
       /\ sent[1].request.url = UrlOf(<<"users", "/", "search">>)
       /\ sent[1].request.params = Dict([predicate |-> Str(<<"inactive == NO">>)])
       /\ last.outcome = "return" => last.value = sent[1].response.body
  /\ last.op = "state_transitions" =>
       /\ Len(sent) = 1
       /\ sent[1].request.verb = "GET"
       /\ sent[1].request.url = UrlOf(<<"states", "/", "search">>)
       /\ sent[1].request.params =
            Dict([predicate |-> Str(<<"ANY PreviousStates.identifier = '">>
                                     \o IdOf(last.args[1]) \o <<"'">>)])
       /\ last.outcome = "return" => last.value = sent[1].response.body

C5_Witness ==
  /\ last.op = "state_transitions"
  /\ last.args[1].t = "dict"
  /\ last.outcome = "return"
  /\ last.value = List(<<Component1>>)

ActiveMilestoneOps == {"milestones_active", "active_milestones"}

IsMilestoneSearch(request) ==
  /\ request.verb = "GET"
  /\ request.url = UrlOf(<<"milestones", "/", "search">>)
  /\ request.params.t = "dict"
  /\ DOMAIN request.params.d = {"predicate"}
  /\ request.params.d.predicate.s[1] = DateRange

(* C6: milestones_active / active_milestones given a component mapping     *)
(* issues a milestones search whose predicate is the date-range condition  *)
(* conjoined with the component condition and returns what the search      *)
(* finds; given None it searches with the date-range condition alone.      *)
C6_ActiveMilestones ==
  last.op \in ActiveMilestoneOps =>
    /\ last.args[1] = None =>
         /\ Len(sent) = 1
         /\ IsMilestoneSearch(sent[1].request)
         /\ sent[1].request.params.d.predicate.s = <<DateRange>>
    /\ last.args[1].t = "dict" =>
         /\ Len(sent) = 1
         /\ IsMilestoneSearch(sent[1].request)
         /\ Len(sent[1].request.params.d.predicate.s) > 1
         /\ last.outcome = "return" => last.value = sent[1].response.body

SearchOps == {"problem_search", "search"}

(* C7: every request of problem_search / search is a GET to                *)
(* problems/search with exactly one of the parameters predicate and        *)
(* savedQuery; called with both arguments None it raises and sends         *)
(* nothing.                                                                *)
C7_SearchParams ==
  last.op \in SearchOps =>
    IF last.args[1] = None /\ last.args[2] = None
      THEN last.outcome = "raise" /\ sent = << >>
      ELSE /\ Len(sent) = 1
           /\ sent[1].request.verb = "GET"
           /\ sent[1].request.url = UrlOf(<<"problems", "/", "search">>)
           /\ sent[1].request.params.t = "dict"
           /\ DOMAIN sent[1].request.params.d \in {{"predicate"}, {"savedQuery"}}

C7_Witness ==
  /\ last.op = "problem_search"
  /\ last.args[1] = None /\ last.args[2] # None
  /\ Len(sent) = 1
  /\ sent[1].request.params = Dict([savedQuery |-> last.args[2]])

KeywordOps == {"problem_keyword_set", "problem_keyword_delete"}

Unreserved == {"F", "2", "-", ".", "_", "~"}
HexDigits == {"0", "1", "2", "3", "4", "5", "6", "7", "8", "9", "A", "B", "C", "D", "E", "F"}

(* the character a %XX triple stands for *)
Decoded(triple) ==
  CASE triple = <<"%", "2", "F">> -> "/"
    [] triple = <<"%", "2", "0">> -> " "
    [] triple = <<"%", "3", "F">> -> "?"
    [] triple = <<"%", "2", "3">> -> "#"
    [] triple = <<"%", "2", "5">> -> "%"
    [] triple = <<"%", "4", "0">> -> "@"
    [] OTHER -> "invalid"

(* percent-decoding of a path segment *)
RECURSIVE Unquote(_)
Unquote(seg) ==
  IF seg = << >>
    THEN << >>
    ELSE IF Head(seg) = "%"
      THEN IF Len(seg) < 3
             THEN <<"invalid">>
             ELSE <<Decoded(SubSeq(seg, 1, 3))>> \o Unquote(SubSeq(seg, 4, Len(seg)))
      ELSE <<Head(seg)>> \o Unquote(Tail(seg))

Slashes(path) == Cardinality({i \in 1..Len(path) : path[i] = "/"})

(* C8: problem_keyword_set sends one PUT and problem_keyword_delete one    *)
(* DELETE to problems/<n>/keywords/<enc(k)>: the path has exactly four     *)
(* segments, and the last holds only unreserved characters and %XX escapes *)
(* and decodes to k, so that no other keyword yields the same endpoint.    *)
C8_KeywordEncoded ==
  (last.op \in KeywordOps /\ ~client.dry_run) =>
    /\ Len(sent) = 1
    /\ sent[1].request.verb = (IF last.op = "problem_keyword_set" THEN "PUT" ELSE "DELETE")
    /\ LET endpoint == EndpointOf(sent[1].request)
           segment == SubSeq(endpoint, 7, Len(endpoint))
       IN  /\ SubSeq(endpoint, 1, 6) =
                <<"problems", "/", ToString(last.args[1].i), "/", "keywords", "/">>
           /\ Slashes(endpoint) = 3
           /\ \A i \in 1..Len(segment) : segment[i] \in Unreserved \cup HexDigits \cup {"%"}
           /\ Unquote(segment) = last.args[2].s

C8_Witness ==
  /\ last.op = "problem_keyword_delete"
  /\ last.args[2] = Str(<<"/", "%">>)
  /\ Len(sent) = 1
  /\ last.args[1] = PyInt(1)
  /\ EndpointOf(sent[1].request) =
       <<"problems", "/", "1", "/", "keywords", "/", "%", "2", "F", "%", "2", "5">>

HasAt(string) == \E i \in 1..Len(string) : string[i] = "@"

(* C9: problem_watchers_add(n, user) sends exactly one PUT to              *)
(* problems/<n>/watchers whose JSON body is {"email": user} for a string   *)
(* with an `@`, {"identifier": user} for a string without, and the mapping *)
(* itself for a mapping.                                                   *)
C9_WatcherBody ==
  (last.op = "problem_watchers_add" /\ ~client.dry_run) =>
    /\ Len(sent) = 1
    /\ sent[1].request.verb = "PUT"
    /\ sent[1].request.url = UrlOf(<<"problems", "/", ToString(last.args[1].i), "/", "watchers">>)
    /\ LET user == last.args[2]
           body == sent[1].request.json
       IN  /\ (user.t = "str" /\ HasAt(user.s)) => body = Dict([email |-> user])
           /\ (user.t = "str" /\ ~HasAt(user.s)) => body = Dict([identifier |-> user])
           /\ user.t = "dict" => body = user
           /\ user.t = "str" => Cardinality(DOMAIN body.d) = 1

C9_Witness ==
  /\ last.op = "problem_watchers_add"
  /\ last.args[2] = Str(<<"@">>)
  /\ Len(sent) = 1
  /\ sent[1].request.json = Dict([email |-> Str(<<"@">>)])

(* C10: with dry_run off, problem_relationship_add(s, t, d) sends exactly  *)
(* one request, a PUT to problems/<s>/relationships with the JSON body     *)
(* {"type": t, "problemIdentifier": d}, none to problem d, and returns     *)
(* None once the server accepted it.                                       *)
C10_RelationshipAdd ==
  (last.op = "problem_relationship_add" /\ ~client.dry_run) =>
    /\ Len(sent) = 1
    /\ sent[1].request.verb = "PUT"
    /\ sent[1].request.url =
         UrlOf(<<"problems", "/", ToString(last.args[1].i), "/", "relationships">>)
    /\ sent[1].request.json =
         Dict([type |-> last.args[2], problemIdentifier |-> last.args[3]])
    /\ sent[1].response.status_code \notin 400..599 =>
         last.outcome = "return" /\ last.value = None

C10_Witness ==
  /\ last.op = "problem_relationship_add"
  /\ last.args = <<PyInt(1), Str(<<"BlockedBy">>), PyInt(2)>>
  /\ Len(sent) = 1
  /\ sent[1].request.json = Dict([type |-> Str(<<"BlockedBy">>), problemIdentifier |-> PyInt(2)])
  /\ last.outcome = "return"

(* the verb of the one request a method maps to *)
MappedVerb ==
  CASE last.op \in {"problem_create", "create_problem", "problem_comments_append"} -> "POST"
    [] last.op = "problem_update" -> "PATCH"
    [] last.op \in {"problem_keyword_set", "problem_relationship_add",
                    "problem_watchers_add"} -> "PUT"
    [] last.op \in {"problem_keyword_delete", "problem_relationship_delete"} -> "DELETE"
    [] OTHER -> "GET"

(* the endpoint of the one request a method maps to *)
MappedEndpoint ==
  CASE last.op \in {"me", "users_active", "active_users"} -> <<"users", "/", "search">>
    [] last.op \in ListOps ->
         IF last.args[1] = None THEN <<last.op>> ELSE <<last.op, "/", "search">>
    [] last.op \in {"component_parent", "component_children"} ->
         <<"components", "/", "search">>
    [] last.op \in {"classifications", "priorities"} -> <<last.op>>
    [] last.op \in ActiveMilestoneOps -> <<"milestones", "/", "search">>
    [] last.op \in {"state_initial", "states_initial", "initial_state", "initial_states",
                    "state_transitions"} -> <<"states", "/", "search">>
    [] last.op \in {"problem", "problem_update"} ->
         <<"problems", "/", ToString(last.args[1].i)>>
    [] last.op \in SearchOps -> <<"problems", "/", "search">>
    [] last.op \in {"problem_create", "create_problem"} -> <<"problems">>
    [] last.op \in KeywordOps ->
         <<"problems", "/", ToString(last.args[1].i), "/", "keywords", "/">>
           \o quote(last.args[2].s, {})
    [] last.op \in {"problem_relationships", "problem_relationship_add",
                    "problem_relationship_delete"} ->
         <<"problems", "/", ToString(last.args[1].i), "/", "relationships">>
    [] last.op \in {"problem_comments", "problem_comments_append"} ->
         <<"problems", "/", ToString(last.args[1].i), "/", "comments">>
    [] last.op \in {"problem_watchers", "problem_watchers_add"} ->
         <<"problems", "/", ToString(last.args[1].i), "/", "watchers">>

IsMethodCall == last.op \notin ({"none"} \cup ConstructorOps)

(* C11: with dry_run off, no invocation of a public method sends more than *)
(* one request, and an invocation that returns normally has sent exactly   *)
(* one, with the verb and to the endpoint the method maps to; this covers  *)
(* milestones_active given a component identifier string.                  *)
C11_OneRequestPerCall ==
  (IsMethodCall /\ ~(OnApi /\ client.dry_run)) =>
    /\ Len(sent) <= 1
    /\ last.outcome = "return" =>
         /\ Len(sent) = 1
         /\ sent[1].request.verb = MappedVerb
         /\ sent[1].request.url = UrlOf(MappedEndpoint)

C11_Witness ==
  /\ OnApi /\ ~client.dry_run
  /\ last.op = "milestones_active"
  /\ last.args[1] = Str(<<"c1">>)
  /\ Len(sent) = 1
  /\ sent[1].request.url = UrlOf(<<"components", "/", "search">>)
  /\ sent[1].response = OkResponse
  /\ last.outcome = "raise"

(* a call has ended having sent what it sends with no other caller around *)
SentAsAlone(t) == threads[t].pc = "done" => threads[t].wire = threads[t].alone

(* C12: no step of a public method, whether the call succeeds, fails or    *)
(* runs dry, changes the client's token, server, API version or dry_run    *)
(* flag; and under every interleaving of the calls of concurrent callers   *)
(* on one shared client, each call sends the requests (verb, URL, headers, *)
(* parameters, body) it sends when run alone.                              *)
C12_SharedClient ==
  /\ [][client' = client]_vars
  /\ [](\A t \in Callers : SentAsAlone(t))

C12_Witness ==
  /\ client.dry_run = FALSE
  /\ threads["c1"].pc = "done"
  /\ threads["c1"].op = "problem_keyword_set"
  /\ Len(threads["c1"].wire) = 1
  /\ threads["c2"].pc = "send"
  /\ threads["c2"].op = "users"

====
